---- MODULE Spec2Model ----
(***************************************************************************)
(* Model of src/testhero.py: HeroGraphQLClient, a client that loads a      *)
(* bearer token from a PEM-like file at construction and then issues       *)
(* GraphQL queries and mutations as HTTP POSTs.                            *)
(*                                                                         *)
(* Python values are records tagged with their type, so that None, the    *)
(* empty dict and the empty string are three different values.  Strings    *)
(* whose characters matter (file lines, the key, the Authorization value)  *)
(* are sequences of one-character strings.  A response body is a sequence  *)
(* of JSON tokens.                                                         *)
(***************************************************************************)
EXTENDS Naturals, Sequences, FiniteSets, TLC

VARIABLES
  fileState,       \* the credential file: "missing", "unreadable" or "ok"
  fileLines,       \* its lines, without terminators
  jsonErrorClass,  \* the class response.json() raises in the installed requests
  pc,              \* "start", "constructed" or "failed"
  self,            \* the client object, NoClient while there is none
  ctor,            \* what the constructor call was given and did
  calls,           \* execute_query / execute_mutation calls started
  posts,           \* requests handed to requests.post
  lastCall         \* the most recent call: arguments, transport outcome, effect

vars == <<fileState, fileLines, jsonErrorClass, pc, self, ctor, calls, posts,
          lastCall>>

\* ------------------------------------------------------------------ bounds
MaxFileLines == 4
MaxCalls == 3

\* ----------------------------------------------------------- Python values
PyNone == [type |-> "NoneType"]
PyStr(chars) == [type |-> "str", s |-> chars]
PyBool(b) == [type |-> "bool", b |-> b]
PyDict(items) == [type |-> "dict", items |-> items]
EmptyItems == [k \in {} |-> PyNone]

\* Python truth value of the values this program tests (`if not x`, `if x`).
Truthy(v) ==
  CASE v.type = "NoneType" -> FALSE
    [] v.type = "str" -> v.s # <<>>
    [] v.type = "dict" -> DOMAIN v.items # {}
    [] v.type = "bool" -> v.b
    [] OTHER -> TRUE

\* ------------------------------------------------------------ str methods
Whitespace == {" ", "\t", "\n", "\r"}

RECURSIVE lstrip(_)
lstrip(s) == IF s # <<>> /\ Head(s) \in Whitespace THEN lstrip(Tail(s)) ELSE s

RECURSIVE rstrip(_)
rstrip(s) ==
  IF s # <<>> /\ s[Len(s)] \in Whitespace THEN rstrip(SubSeq(s, 1, Len(s) - 1)) ELSE s

strip(s) == rstrip(lstrip(s))

startswith(s, prefix) ==
  Len(s) >= Len(prefix) /\ SubSeq(s, 1, Len(prefix)) = prefix

RECURSIVE join(_)
join(parts) == IF parts = <<>> THEN <<>> ELSE Head(parts) \o join(Tail(parts))

\* The PEM delimiter marker "-----".
PemMarker == <<"-", "-", "-", "-", "-">>

\* ------------------------------------------------------------- file system
\* Line contents (without the line terminator) a credential file is built of.
LineSamples ==
  { PemMarker \o <<"B">>,              \* delimiter line at column 0
    PemMarker \o <<"E">>,              \* delimiter line at column 0
    <<" ">> \o PemMarker \o <<"E">>,   \* delimiter line after leading blank
    <<" ", "a", " ">>,                 \* body line with surrounding blanks
    <<"b">>,                           \* body line
    <<>>,                              \* blank line
    <<" ", "\t">>,                     \* whitespace-only line
    <<"-", "-", "-", "-", "c">> }      \* four dashes: not a delimiter

BoundedSeq(S, n) == UNION { [1..k -> S] : k \in 0..n }

FileContents == BoundedSeq(LineSamples, MaxFileLines)

\* The credential files the client is run with: a key between delimiters, a
\* bare key, delimiters alone, and a key after an indented delimiter.
CredentialFiles ==
  { << PemMarker \o <<"B">>, <<" ", "a", " ">>, <<"b">>, PemMarker \o <<"E">> >>,
    << <<"b">> >>,
    << PemMarker \o <<"B">>, <<>>, PemMarker \o <<"E">> >>,
    << <<" ">> \o PemMarker \o <<"E">>, <<"b">> >> }

\* file.readlines(): every line keeps its terminator; the last line of the
\* file has none.
readlines(content) ==
  [i \in 1..Len(content) |->
     IF i < Len(content) THEN content[i] \o <<"\n">> ELSE content[i]]

\* HeroGraphQLClient.read: the key, or None with one diagnostic line.
read(state, content) ==
  IF state = "missing" THEN [ret |-> PyNone, out |-> <<"File not found:">>]
  ELSE IF state = "unreadable"
  THEN [ret |-> PyNone, out |-> <<"An error occurred while reading the file:">>]
  ELSE LET lines == readlines(content)
           kept == SelectSeq(lines, LAMBDA line:
                       strip(line) # <<>> /\ ~startswith(line, PemMarker))
           key_lines == [i \in 1..Len(kept) |-> strip(kept[i])]
       IN [ret |-> PyStr(join(key_lines)), out |-> <<>>]

\* ------------------------------------------------------------------- JSON
\* String literal tokens; the lexing of characters into tokens is not
\* modelled, a quoted string is one token.
StrLits == {"\"data\"", "\"ok\"", "\"errors\"", "\"id\"", "\"1\""}

ParseFail == [ok |-> FALSE, val |-> PyNone, rest |-> <<>>]

RECURSIVE ParseValue(_)
RECURSIVE ParseMembers(_, _)

\* json value ::= null | true | false | string | object
ParseValue(ts) ==
  IF ts = <<>> THEN ParseFail
  ELSE LET h == Head(ts)
           t == Tail(ts)
       IN CASE h = "null" -> [ok |-> TRUE, val |-> PyNone, rest |-> t]
            [] h = "true" -> [ok |-> TRUE, val |-> PyBool(TRUE), rest |-> t]
            [] h = "false" -> [ok |-> TRUE, val |-> PyBool(FALSE), rest |-> t]
            [] h \in StrLits -> [ok |-> TRUE, val |-> PyStr(h), rest |-> t]
            [] h = "{" ->
                 IF t # <<>> /\ Head(t) = "}"
                 THEN [ok |-> TRUE, val |-> PyDict(EmptyItems), rest |-> Tail(t)]
                 ELSE ParseMembers(t, EmptyItems)
            [] OTHER -> ParseFail

\* members ::= string ":" value ( "," members | "}" )
ParseMembers(ts, acc) ==
  IF Len(ts) < 3 \/ ts[1] \notin StrLits \/ ts[2] # ":" THEN ParseFail
  ELSE LET r == ParseValue(SubSeq(ts, 3, Len(ts)))
           items == [k \in DOMAIN acc \cup {ts[1]} |->
                       IF k = ts[1] THEN r.val ELSE acc[k]]
       IN IF ~r.ok \/ r.rest = <<>> THEN ParseFail
          ELSE IF Head(r.rest) = "}"
          THEN [ok |-> TRUE, val |-> PyDict(items), rest |-> Tail(r.rest)]
          ELSE IF Head(r.rest) = ","
          THEN ParseMembers(Tail(r.rest), items)
          ELSE ParseFail

\* json.loads on the whole body: a value, or a decode error.
json_loads(text) ==
  LET r == ParseValue(text)
  IN IF r.ok /\ r.rest = <<>> THEN [ok |-> TRUE, val |-> r.val]
     ELSE [ok |-> FALSE, val |-> PyNone]

\* ------------------------------------------------------------- transport
StatusCodes == {200, 201, 500}

Bodies ==
  { <<"{", "\"data\"", ":", "{", "\"ok\"", ":", "true", "}", "}">>,
    <<"{", "}">>,
    <<"null">>,
    <<"<html>">>,
    <<>> }

\* What requests.post does: it answers with a response, or it raises.
Outcomes ==
  [kind : {"response"}, status : StatusCodes, text : Bodies, exc : {"none"}]
  \cup
  [kind : {"fault"}, status : {0}, text : {<<>>},
   exc : {"ConnectionError", "Timeout"}]

\* The class response.json() raises on a body that is not JSON:
\* requests.exceptions.JSONDecodeError in requests 2.27 and later, the json
\* module's JSONDecodeError (a ValueError) before.
JsonErrorClasses == {"requests.JSONDecodeError", "json.JSONDecodeError"}

\* issubclass(exc, requests.exceptions.RequestException)
IsRequestException(exc) ==
  exc \in {"ConnectionError", "Timeout", "requests.JSONDecodeError"}

\* --------------------------------------------------------------- inputs
Urls == { "https://login.hero-software.de/api/external/v7/graphql",
          "http://localhost/graphql" }

Documents == {"query { project_matches { id } }", "mutation { create_contact { id } }"}

VariableValues ==
  { PyNone, PyDict(EmptyItems), PyDict("id" :> PyStr("1")) }

\* ------------------------------------------------------------ the client
NoClient == [type |-> "NoneType"]
NoReturn == [type |-> "<no value>"]

Bearer == <<"B", "e", "a", "r", "e", "r", " ">>

\* Mutant of __init__: tests `self.api_key is None` instead of `not self.api_key`.
__init__NoneTestOnly(url, state, content) ==
  LET r == read(state, content)
  IN IF r.ret = PyNone
     THEN [self |-> NoClient, raised |-> "ValueError", out |-> r.out,
           api_key |-> r.ret, sent |-> <<>>]
     ELSE [self |-> [type |-> "HeroGraphQLClient",
                     url |-> url,
                     api_key |-> r.ret,
                     headers |-> ("Content-Type" :> "application/json")
                              @@ ("Accept" :> "application/json")
                              @@ ("Authorization" :> Bearer \o r.ret.s)],
           raised |-> "none", out |-> r.out, api_key |-> r.ret, sent |-> <<>>]

\* Mutant of __init__: sends the key without the "Bearer " scheme.
__init__NoScheme(url, state, content) ==
  LET r == read(state, content)
  IN IF ~Truthy(r.ret)
     THEN [self |-> NoClient, raised |-> "ValueError", out |-> r.out,
           api_key |-> r.ret, sent |-> <<>>]
     ELSE [self |-> [type |-> "HeroGraphQLClient",
                     url |-> url,
                     api_key |-> r.ret,
                     headers |-> ("Content-Type" :> "application/json")
                              @@ ("Accept" :> "application/json")
                              @@ ("Authorization" :> r.ret.s)],
           raised |-> "none", out |-> r.out, api_key |-> r.ret, sent |-> <<>>]

\* HeroGraphQLClient.__init__: the object, or ValueError.  The result carries
\* what read returned and printed, and the requests issued (none).  The
\* Authorization value is a sequence of characters, as the key is.
__init__(url, state, content) ==
  LET r == read(state, content)
  IN IF ~Truthy(r.ret)
     THEN [self |-> NoClient, raised |-> "ValueError", out |-> r.out,
           api_key |-> r.ret, sent |-> <<>>]
     ELSE [self |-> [type |-> "HeroGraphQLClient",
                     url |-> url,
                     api_key |-> r.ret,
                     headers |-> ("Content-Type" :> "application/json")
                              @@ ("Accept" :> "application/json")
                              @@ ("Authorization" :> Bearer \o r.ret.s)],
           raised |-> "none", out |-> r.out, api_key |-> r.ret, sent |-> <<>>]

\* Mutant of query_payload: tests `variables is not None`.
query_payloadNotNoneTest(query, variables) ==
  IF variables # PyNone
  THEN ("query" :> PyStr(query)) @@ ("variables" :> variables)
  ELSE ("query" :> PyStr(query))

\* payload = {"query": query}; if variables: payload["variables"] = variables
query_payload(query, variables) ==
  IF Truthy(variables)
  THEN ("query" :> PyStr(query)) @@ ("variables" :> variables)
  ELSE ("query" :> PyStr(query))

\* Mutant of mutation_payload: sends the document under the key "mutation".
mutation_payloadMutationKey(mutation, variables) ==
  IF Truthy(variables)
  THEN ("mutation" :> PyStr(mutation)) @@ ("variables" :> variables)
  ELSE ("mutation" :> PyStr(mutation))

\* payload = {"query": mutation}; if variables: payload["variables"] = variables
mutation_payload(mutation, variables) ==
  IF Truthy(variables)
  THEN ("query" :> PyStr(mutation)) @@ ("variables" :> variables)
  ELSE ("query" :> PyStr(mutation))

\* Mutant of execute_query: takes every status below 300 for success.
execute_queryAnySuccessStatus(client, query, variables, outcome, jsonErr) ==
  LET payload == query_payload(query, variables)
      request == [method |-> "POST", url |-> client.url, json |-> payload,
                  headers |-> client.headers]
      statusLine == "Response status code (Query):"
  IN IF outcome.kind = "fault"
     THEN IF IsRequestException(outcome.exc)
          THEN [sent |-> <<request>>,
                out |-> <<"An error occurred while executing the query:">>,
                ret |-> PyNone, raised |-> "none"]
          ELSE [sent |-> <<request>>, out |-> <<>>,
                ret |-> NoReturn, raised |-> outcome.exc]
     ELSE IF outcome.status < 300
     THEN LET parsed == json_loads(outcome.text)
          IN IF parsed.ok
             THEN [sent |-> <<request>>, out |-> <<statusLine>>,
                   ret |-> parsed.val, raised |-> "none"]
             ELSE IF IsRequestException(jsonErr)
             THEN [sent |-> <<request>>,
                   out |-> <<statusLine,
                             "An error occurred while executing the query:">>,
                   ret |-> PyNone, raised |-> "none"]
             ELSE [sent |-> <<request>>, out |-> <<statusLine>>,
                   ret |-> NoReturn, raised |-> jsonErr]
     ELSE [sent |-> <<request>>,
           out |-> <<statusLine, "Failed to execute query:">>,
           ret |-> PyNone, raised |-> "none"]

\* Mutant of execute_query: posts a second time after a status other than 200.
execute_queryRetryOnError(client, query, variables, outcome, jsonErr) ==
  LET payload == query_payload(query, variables)
      request == [method |-> "POST", url |-> client.url, json |-> payload,
                  headers |-> client.headers]
      statusLine == "Response status code (Query):"
  IN IF outcome.kind = "fault"
     THEN IF IsRequestException(outcome.exc)
          THEN [sent |-> <<request>>,
                out |-> <<"An error occurred while executing the query:">>,
                ret |-> PyNone, raised |-> "none"]
          ELSE [sent |-> <<request>>, out |-> <<>>,
                ret |-> NoReturn, raised |-> outcome.exc]
     ELSE IF outcome.status = 200
     THEN LET parsed == json_loads(outcome.text)
          IN IF parsed.ok
             THEN [sent |-> <<request>>, out |-> <<statusLine>>,
                   ret |-> parsed.val, raised |-> "none"]
             ELSE IF IsRequestException(jsonErr)
             THEN [sent |-> <<request>>,
                   out |-> <<statusLine,
                             "An error occurred while executing the query:">>,
                   ret |-> PyNone, raised |-> "none"]
             ELSE [sent |-> <<request>>, out |-> <<statusLine>>,
                   ret |-> NoReturn, raised |-> jsonErr]
     ELSE [sent |-> <<request, request>>,
           out |-> <<statusLine, "Failed to execute query:">>,
           ret |-> PyNone, raised |-> "none"]

\* HeroGraphQLClient.execute_query: the requests handed to requests.post, the
\* lines printed, and the value returned or the exception that leaves the call.
execute_query(client, query, variables, outcome, jsonErr) ==
  LET payload == query_payload(query, variables)
      request == [method |-> "POST", url |-> client.url, json |-> payload,
                  headers |-> client.headers]
      statusLine == "Response status code (Query):"
  IN IF outcome.kind = "fault"
     THEN IF IsRequestException(outcome.exc)
          THEN [sent |-> <<request>>,
                out |-> <<"An error occurred while executing the query:">>,
                ret |-> PyNone, raised |-> "none"]
          ELSE [sent |-> <<request>>, out |-> <<>>,
                ret |-> NoReturn, raised |-> outcome.exc]
     ELSE IF outcome.status = 200
     THEN LET parsed == json_loads(outcome.text)
          IN IF parsed.ok
             THEN [sent |-> <<request>>, out |-> <<statusLine>>,
                   ret |-> parsed.val, raised |-> "none"]
             ELSE IF IsRequestException(jsonErr)
             THEN [sent |-> <<request>>,
                   out |-> <<statusLine,
                             "An error occurred while executing the query:">>,
                   ret |-> PyNone, raised |-> "none"]
             ELSE [sent |-> <<request>>, out |-> <<statusLine>>,
                   ret |-> NoReturn, raised |-> jsonErr]
     ELSE [sent |-> <<request>>,
           out |-> <<statusLine, "Failed to execute query:">>,
           ret |-> PyNone, raised |-> "none"]

\* Mutant of execute_mutation: prints the status line only for a failure.
execute_mutationSilentSuccess(client, mutation, variables, outcome, jsonErr) ==
  LET payload == mutation_payload(mutation, variables)
      request == [method |-> "POST", url |-> client.url, json |-> payload,
                  headers |-> client.headers]
      statusLine == "Response status code (Mutation):"
  IN IF outcome.kind = "fault"
     THEN IF IsRequestException(outcome.exc)
          THEN [sent |-> <<request>>,
                out |-> <<"An error occurred while executing the mutation:">>,
                ret |-> PyNone, raised |-> "none"]
          ELSE [sent |-> <<request>>, out |-> <<>>,
                ret |-> NoReturn, raised |-> outcome.exc]
     ELSE IF outcome.status = 200
     THEN LET parsed == json_loads(outcome.text)
          IN IF parsed.ok
             THEN [sent |-> <<request>>, out |-> <<>>,
                   ret |-> parsed.val, raised |-> "none"]
             ELSE IF IsRequestException(jsonErr)
             THEN [sent |-> <<request>>,
                   out |-> <<statusLine,
                             "An error occurred while executing the mutation:">>,
                   ret |-> PyNone, raised |-> "none"]
             ELSE [sent |-> <<request>>, out |-> <<statusLine>>,
                   ret |-> NoReturn, raised |-> jsonErr]
     ELSE [sent |-> <<request>>,
           out |-> <<statusLine, "Failed to execute mutation:">>,
           ret |-> PyNone, raised |-> "none"]

\* HeroGraphQLClient.execute_mutation: the requests handed to requests.post, the
\* lines printed, and the value returned or the exception that leaves the call.
execute_mutation(client, mutation, variables, outcome, jsonErr) ==
  LET payload == mutation_payload(mutation, variables)
      request == [method |-> "POST", url |-> client.url, json |-> payload,
                  headers |-> client.headers]
      statusLine == "Response status code (Mutation):"
  IN IF outcome.kind = "fault"
     THEN IF IsRequestException(outcome.exc)
          THEN [sent |-> <<request>>,
                out |-> <<"An error occurred while executing the mutation:">>,
                ret |-> PyNone, raised |-> "none"]
          ELSE [sent |-> <<request>>, out |-> <<>>,
                ret |-> NoReturn, raised |-> outcome.exc]
     ELSE IF outcome.status = 200
     THEN LET parsed == json_loads(outcome.text)
          IN IF parsed.ok
             THEN [sent |-> <<request>>, out |-> <<statusLine>>,
                   ret |-> parsed.val, raised |-> "none"]
             ELSE IF IsRequestException(jsonErr)
             THEN [sent |-> <<request>>,
                   out |-> <<statusLine,
                             "An error occurred while executing the mutation:">>,
                   ret |-> PyNone, raised |-> "none"]
             ELSE [sent |-> <<request>>, out |-> <<statusLine>>,
                   ret |-> NoReturn, raised |-> jsonErr]
     ELSE [sent |-> <<request>>,
           out |-> <<statusLine, "Failed to execute mutation:">>,
           ret |-> PyNone, raised |-> "none"]

\* ------------------------------------------------------------ the program
NoCall == [op |-> "none"]
NoCtor == [url |-> "", api_key |-> PyNone, raised |-> "none", out |-> <<>>]

InitWith(files) ==
  /\ fileState \in {"missing", "unreadable", "ok"}
  /\ fileLines \in files
  /\ fileState # "ok" => fileLines = <<>>
  /\ jsonErrorClass \in JsonErrorClasses
  /\ pc = "start"
  /\ self = NoClient
  /\ ctor = NoCtor
  /\ calls = 0
  /\ posts = 0
  /\ lastCall = NoCall

Init == InitWith(CredentialFiles \cup {<<>>})

InitRead == InitWith(FileContents)

\* client = HeroGraphQLClient(api_url, api_key_path)
Construct ==
  /\ pc = "start"
  /\ \E url \in Urls :
       LET c == __init__(url, fileState, fileLines)
       IN /\ self' = c.self
          /\ ctor' = [url |-> url, api_key |-> c.api_key, raised |-> c.raised,
                      out |-> c.out]
          /\ posts' = posts + Len(c.sent)
          /\ pc' = IF c.raised = "none" THEN "constructed" ELSE "failed"
  /\ UNCHANGED <<fileState, fileLines, jsonErrorClass, calls, lastCall>>

Record(op, doc, variables, outcome, e) ==
  [op |-> op, doc |-> doc, variables |-> variables, outcome |-> outcome,
   sent |-> e.sent, out |-> e.out, ret |-> e.ret, raised |-> e.raised]

\* client.execute_query(query, variables)
ExecuteQuery ==
  /\ pc = "constructed"
  /\ calls < MaxCalls
  /\ \E doc \in Documents, variables \in VariableValues, outcome \in Outcomes :
       LET e == execute_query(self, doc, variables, outcome, jsonErrorClass)
       IN /\ lastCall' = Record("query", doc, variables, outcome, e)
          /\ posts' = posts + Len(e.sent)
  /\ calls' = calls + 1
  /\ UNCHANGED <<fileState, fileLines, jsonErrorClass, pc, self, ctor>>

\* client.execute_mutation(mutation, variables)
ExecuteMutation ==
  /\ pc = "constructed"
  /\ calls < MaxCalls
  /\ \E doc \in Documents, variables \in VariableValues, outcome \in Outcomes :
       LET e == execute_mutation(self, doc, variables, outcome, jsonErrorClass)
       IN /\ lastCall' = Record("mutation", doc, variables, outcome, e)
          /\ posts' = posts + Len(e.sent)
  /\ calls' = calls + 1
  /\ UNCHANGED <<fileState, fileLines, jsonErrorClass, pc, self, ctor>>

Next == Construct \/ ExecuteQuery \/ ExecuteMutation

Spec == Init /\ [][Next]_vars

\* The construction alone, over every bounded credential file.
NextRead == Construct

SpecRead == InitRead /\ [][NextRead]_vars

\* ================================================================ claims
\* A call has been made; lastCall holds it.
Called == lastCall.op # "none"

\* The exchange failed: a transport fault, a status other than 200, or a
\* body that is not JSON.
Failed(outcome) ==
  \/ outcome.kind = "fault"
  \/ outcome.status # 200
  \/ ~json_loads(outcome.text).ok

NonEmptyStr(v) == v.type = "str" /\ v.s # <<>>

\* ---- C1
\* C1: execute_query and execute_mutation never let an exception leave the
\* call, whatever the HTTP exchange does, and every failed exchange (fault,
\* status other than 200, body that is not JSON) returns None.
C1_NeverRaises ==
  Called =>
    /\ lastCall.raised = "none"
    /\ Failed(lastCall.outcome) => lastCall.ret = PyNone

\* ---- C2
\* The key the claim describes: lines that are empty after trimming, or whose
\* trimmed content begins with "-----", are discarded; the rest are trimmed
\* and concatenated in file order.
TrimmedKey(content) ==
  LET lines == readlines(content)
      kept == SelectSeq(lines, LAMBDA line:
                  strip(line) # <<>> /\ ~startswith(strip(line), PemMarker))
  IN join([i \in 1..Len(kept) |-> strip(kept[i])])

\* C2: for every file content, read returns the concatenation of the trimmed
\* lines, without those empty after trimming and without those whose trimmed
\* content begins with "-----".
C2_ReadDropsTrimmedDelimiters ==
  (pc # "start" /\ fileState = "ok") => ctor.api_key = PyStr(TrimmedKey(fileLines))

\* ---- C3
\* Every line is blank or a delimiter line starting at column 0.
OnlyDelimitersOrBlanks(content) ==
  \A i \in 1..Len(content) :
    strip(content[i]) = <<>> \/ startswith(content[i], PemMarker)

\* C3: construction raises and produces no client (so no call can follow)
\* when the file is missing, unreadable or yields an empty key, and succeeds
\* only with a non-empty key.
C3_NoClientWithoutKey ==
  pc # "start" =>
    /\ fileState # "ok" => pc = "failed"
    /\ (fileState = "ok" /\ OnlyDelimitersOrBlanks(fileLines)) => pc = "failed"
    /\ pc = "failed" <=> ~NonEmptyStr(ctor.api_key)
    /\ pc = "failed" =>
         /\ self = NoClient
         /\ ctor.raised = "ValueError"
         /\ ~ENABLED ExecuteQuery
         /\ ~ENABLED ExecuteMutation
    /\ pc = "constructed" =>
         /\ ctor.raised = "none"
         /\ self.type = "HeroGraphQLClient"
         /\ NonEmptyStr(self.api_key)

\* Construction failed on a readable file holding only delimiters and blanks.
C3_Witness ==
  /\ pc = "failed"
  /\ fileState = "ok"
  /\ Len(fileLines) >= 2
  /\ ctor.api_key = PyStr(<<>>)

\* ---- C4
\* C4: after any sequence of calls the client's url, key and headers are those
\* of construction, the headers are exactly Content-Type, Accept and
\* Authorization: Bearer <the loader's output>, and every request carries them.
C4_HeadersFixed ==
  pc = "constructed" =>
    /\ self.url = ctor.url
    /\ self.api_key = ctor.api_key
    /\ ctor.api_key = read(fileState, fileLines).ret
    /\ DOMAIN self.headers = {"Content-Type", "Accept", "Authorization"}
    /\ self.headers["Content-Type"] = "application/json"
    /\ self.headers["Accept"] = "application/json"
    /\ self.headers["Authorization"] = Bearer \o ctor.api_key.s
    /\ Called =>
         \A i \in 1..Len(lastCall.sent) : lastCall.sent[i].headers = self.headers

\* A second call, after a transport fault or not, on the key "ab".
C4_Witness ==
  /\ pc = "constructed"
  /\ calls >= 2
  /\ lastCall.outcome.kind = "fault"
  /\ self.headers["Authorization"] = Bearer \o <<"a", "b">>

\* ---- C5
DataOkBody == <<"{", "\"data\"", ":", "{", "\"ok\"", ":", "true", "}", "}">>
DataOkValue == PyDict("\"data\"" :> PyDict("\"ok\"" :> PyBool(TRUE)))

\* C5: a response with status 200 whose body is JSON returns the parsed body;
\* a response with any other status returns None whatever its body.
C5_StatusDecides ==
  (Called /\ lastCall.outcome.kind = "response") =>
    /\ (lastCall.outcome.status = 200 /\ json_loads(lastCall.outcome.text).ok) =>
         /\ lastCall.raised = "none"
         /\ lastCall.ret = json_loads(lastCall.outcome.text).val
    /\ (lastCall.outcome.status = 200 /\ lastCall.outcome.text = DataOkBody) =>
         lastCall.ret = DataOkValue
    /\ lastCall.outcome.status # 200 =>
         /\ lastCall.raised = "none"
         /\ lastCall.ret = PyNone

\* Status 200 with {"data":{"ok":true}} returned as that object.
C5_Witness ==
  /\ Called
  /\ lastCall.outcome.kind = "response"
  /\ lastCall.outcome.status = 200
  /\ lastCall.outcome.text = DataOkBody
  /\ lastCall.ret = DataOkValue

\* ---- C6
\* C6: the request body has "query" equal to the document; it has "variables"
\* equal to the argument exactly when that is a non-empty mapping, and no
\* other key.
C6_PayloadShape ==
  Called =>
    \A i \in 1..Len(lastCall.sent) :
      LET payload == lastCall.sent[i].json
          given == lastCall.variables
      IN /\ payload["query"] = PyStr(lastCall.doc)
         /\ IF given.type = "dict" /\ DOMAIN given.items # {}
            THEN /\ DOMAIN payload = {"query", "variables"}
                 /\ payload["variables"] = given
            ELSE DOMAIN payload = {"query"}

\* A call given the empty mapping sent a body without "variables".
C6_Witness ==
  /\ Called
  /\ lastCall.variables = PyDict(EmptyItems)
  /\ Len(lastCall.sent) = 1
  /\ DOMAIN lastCall.sent[1].json = {"query"}

\* ---- C7
\* C7: construction posts nothing and each call posts exactly once, to the
\* stored url, without a retry: the POSTs issued number the calls started.
C7_OnePostPerCall ==
  /\ posts = calls
  /\ Called =>
       /\ Len(lastCall.sent) = 1
       /\ lastCall.sent[1].method = "POST"
       /\ lastCall.sent[1].url = ctor.url

\* A second call answered with status 500.
C7_Witness ==
  /\ calls >= 2
  /\ posts = 2
  /\ lastCall.outcome.status = 500

\* ---- C8
\* C8: on the same document, variables and transport outcome, execute_query
\* and execute_mutation send the same request and end the same way.
C8_QueryMutationAgree ==
  Called =>
    LET other == IF lastCall.op = "query"
                 THEN execute_mutation(self, lastCall.doc, lastCall.variables,
                                       lastCall.outcome, jsonErrorClass)
                 ELSE execute_query(self, lastCall.doc, lastCall.variables,
                                    lastCall.outcome, jsonErrorClass)
    IN /\ other.sent = lastCall.sent
       /\ other.ret = lastCall.ret
       /\ other.raised = lastCall.raised
       /\ Len(other.out) = Len(lastCall.out)

\* A mutation with variables answered with status 200.
C8_Witness ==
  /\ lastCall.op = "mutation"
  /\ Truthy(lastCall.variables)
  /\ lastCall.outcome.status = 200
  /\ lastCall.ret = PyDict(EmptyItems)

\* ---- C9
\* C9: every call writes at least one diagnostic line, on status 200, on
\* any other status and on a transport fault.
C9_AlwaysPrints ==
  Called => Len(lastCall.out) >= 1

\* A status 200 mutation that returned normally and printed.
C9_Witness ==
  /\ lastCall.op = "mutation"
  /\ lastCall.outcome.status = 200
  /\ lastCall.raised = "none"
  /\ lastCall.ret # PyNone
  /\ Len(lastCall.out) = 1

\* ---- C10
\* C10: a call that returns yields None if and only if the exchange failed;
\* every status 200 with a JSON body, null and {} included, returns a value
\* other than None.
C10_NoneIffFailed ==
  (Called /\ lastCall.raised = "none") =>
    (lastCall.ret = PyNone <=> Failed(lastCall.outcome))

====
